---- MODULE Spec2Model ----
(***************************************************************************)
(* VVM-C (src/vvm.h): the interface between a VVM (the Engine) and the     *)
(* Host that controls it.                                                  *)
(*                                                                         *)
(* Three specifications share the variables:                                 *)
(*   Spec      one call tree: the Host calls execute, the VVM calls back   *)
(*             through vvm_context_fn_table, nested calls re-enter a VVM,  *)
(*             every vvm_result goes back to its receiver;                 *)
(*   SpecData  the bytes of one vvm_result and the accessors of its        *)
(*             "optional data";                                            *)
(*   SpecRev   two runs of one VVM instance that served different earlier  *)
(*             execute calls and then serve the same one.                  *)
(***************************************************************************)
EXTENDS Integers, Sequences, FiniteSets, TLC

\* ------------------------------------------------------------------ bounds
MaxCallDepth == 2      \* the negotiated depth limit of nested calls
MaxDepthInc  == 2      \* a nested message is at most this much deeper
MaxGas       == 1      \* gas_left ranges over 0..MaxGas
MaxLogs      == 1      \* logs the Host keeps
MaxBalance   == 1      \* the executing account's balance
MaxCodeBufs  == 1      \* code buffers the Host hands out in one call tree
MaxPayloads  == 4      \* distinct 24-byte payloads written as optional data
MaxAddresses == 3      \* distinct create_address values
MaxImages    == 3      \* distinct vvm_result values SpecData starts from
MaxEarlierCalls == 2   \* execute calls an instance served before the compared one

NULL == "NULL"

\* ------------------------------------------------------- enums of vvm.h
VVM_STATIC == 1

vvm_flags == {0, VVM_STATIC}

IsStatic(flags) == (flags % 2) = VVM_STATIC

\* The eleven enumerators of vvm_status_code, with their values.
vvm_status_code_Extra ==
  [ VVM_SUCCESS |-> 0, VVM_FAILURE |-> 1, VVM_OUT_OF_GAS |-> 2,
    VVM_BAD_INSTRUCTION |-> 3, VVM_BAD_JUMP_DESTINATION |-> 4,
    VVM_STACK_OVERFLOW |-> 5, VVM_STACK_UNDERFLOW |-> 6, VVM_REVERT |-> 7,
    VVM_STATIC_MODE_ERROR |-> 8, VVM_REJECTED |-> -1,
    VVM_INTERNAL_ERROR |-> -2, VVM_UNDEFINED_INSTRUCTION |-> 9 ]

vvm_status_code ==
  [ VVM_SUCCESS |-> 0, VVM_FAILURE |-> 1, VVM_OUT_OF_GAS |-> 2,
    VVM_BAD_INSTRUCTION |-> 3, VVM_BAD_JUMP_DESTINATION |-> 4,
    VVM_STACK_OVERFLOW |-> 5, VVM_STACK_UNDERFLOW |-> 6, VVM_REVERT |-> 7,
    VVM_STATIC_MODE_ERROR |-> 8, VVM_REJECTED |-> -1,
    VVM_INTERNAL_ERROR |-> -2 ]

StatusCodes == DOMAIN vvm_status_code

\* ------------------------------------------------- layout of vvm_result
SizeofEnum    == 4
SizeofInt64   == 8
SizeofPointer == 8
SizeofSizeT   == 8
SizeofAddress == 20
SizeofPadding == 4
SizeofOptionalBytes == 24

\* The members of struct vvm_result in declaration order; an array of
\* uint8_t has alignment 1.
vvm_result_Packed ==
  << [name |-> "status_code",    size |-> SizeofEnum,    align |-> 1],
     [name |-> "gas_left",       size |-> SizeofInt64,   align |-> 1],
     [name |-> "output_data",    size |-> SizeofPointer, align |-> 1],
     [name |-> "output_size",    size |-> SizeofSizeT,   align |-> 1],
     [name |-> "release",        size |-> SizeofPointer, align |-> 1],
     [name |-> "create_address", size |-> SizeofAddress, align |-> 1],
     [name |-> "padding",        size |-> SizeofPadding, align |-> 1] >>

vvm_result ==
  << [name |-> "status_code",    size |-> SizeofEnum,    align |-> SizeofEnum],
     [name |-> "gas_left",       size |-> SizeofInt64,   align |-> SizeofInt64],
     [name |-> "output_data",    size |-> SizeofPointer, align |-> SizeofPointer],
     [name |-> "output_size",    size |-> SizeofSizeT,   align |-> SizeofSizeT],
     [name |-> "release",        size |-> SizeofPointer, align |-> SizeofPointer],
     [name |-> "create_address", size |-> SizeofAddress, align |-> 1],
     [name |-> "padding",        size |-> SizeofPadding, align |-> 1] >>

AlignUp(n, a) == ((n + a - 1) \div a) * a

RECURSIVE FieldOffset(_)
FieldOffset(i) ==
  AlignUp(IF i = 1 THEN 0 ELSE FieldOffset(i - 1) + vvm_result[i - 1].size,
          vvm_result[i].align)

FieldIndex(name) == CHOOSE i \in DOMAIN vvm_result : vvm_result[i].name = name

OffsetOf(name) == FieldOffset(FieldIndex(name))

SizeOf(name) == vvm_result[FieldIndex(name)].size

RECURSIVE MaxAlign(_)
MaxAlign(i) ==
  IF i = 0 THEN 1
  ELSE IF vvm_result[i].align > MaxAlign(i - 1) THEN vvm_result[i].align
       ELSE MaxAlign(i - 1)

SizeofResult ==
  AlignUp(FieldOffset(Len(vvm_result)) + vvm_result[Len(vvm_result)].size,
          MaxAlign(Len(vvm_result)))

\* union vvm_result_optional_data { uint8_t bytes[24]; void* pointer; }
vvm_result_optional_data ==
  AlignUp(IF SizeofOptionalBytes > SizeofPointer
            THEN SizeofOptionalBytes ELSE SizeofPointer,
          SizeofPointer)

\* The offset, within the vvm_result, of the union the accessor returns.
vvm_get_optional_data_Release == OffsetOf("release")

vvm_get_optional_data == OffsetOf("create_address")

vvm_get_const_optional_data == OffsetOf("create_address")

VARIABLES
  hostpc,     \* the Host: "idle", "exec", "cleanup", "done"
  hostCtx,    \* the vvm_context the Host passed to the top-level execute
  stack,      \* the executions in progress, the running one last
  result,     \* the vvm_result its receiver holds, or NoResult
  rpc,        \* what the receiver has done with it: none, got, used, released
  released,   \* how many times result.release was invoked on it
  deadRead,   \* whether it was read after its release
  dropped,    \* the results discarded so far, as (release set, times released)
  world,      \* the Host's world state
  attempt,    \* the operation the last step performed, or tried to
  cb,         \* the callback the last step invoked, or NoCall
  codeBufs,   \* the code buffers get_code handed out
  mem,        \* SpecData: the bytes of one vvm_result
  written,    \* SpecData: the payload last written as optional data
  addrAfter,  \* SpecData: the create_address written after it
  readback,   \* SpecData: the 24 bytes last read as optional data
  runs,       \* SpecRev: per run, the instance and the revisions it served
  compared    \* SpecRev: the call both runs served next, and what each gave

vars == << hostpc, hostCtx, stack, result, rpc, released, deadRead, dropped,
           world, attempt, cb, codeBufs, mem, written, addrAfter, readback,
           runs, compared >>

revVars == << runs, compared >>

\* What SpecData's actions leave alone, and what the call tree's leave alone.
treeVars == << hostpc, hostCtx, stack, result, rpc, released, deadRead,
               dropped, world, attempt, cb, codeBufs, revVars >>

dataVars == << mem, written, addrAfter, readback, revVars >>

\* ------------------------------------------------ SpecData: result bytes
Byte == 256

\* The n bytes of the integer v, least significant first (two's complement).
RECURSIVE LittleEndian(_, _)
LittleEndian(v, n) ==
  IF n = 0 THEN << >>
  ELSE << v % Byte >> \o LittleEndian((v - (v % Byte)) \div Byte, n - 1)

Zeros(n) == [k \in 1..n |-> 0]

\* The 20 bytes of the a-th address, the 24 bytes of the s-th payload.
Address(a) == [k \in 1..SizeofAddress |-> (a * 32 + k) % Byte]

Payload(s) == [k \in 1..SizeofOptionalBytes |-> (s * 64 + 7 * k) % Byte]

\* The n-th vvm_result value a creator builds (integers for the pointers).
ExampleResult(n) ==
  [ status_code    |-> IF n % 3 = 1 THEN vvm_status_code.VVM_SUCCESS
                       ELSE IF n % 3 = 2 THEN vvm_status_code.VVM_REVERT
                       ELSE vvm_status_code.VVM_REJECTED,
    gas_left       |-> IF n % 3 = 0 THEN 0 ELSE 1000 * n,
    output_data    |-> IF n % 3 = 1 THEN 4096 * n ELSE 0,
    output_size    |-> IF n % 3 = 1 THEN n + 1 ELSE 0,
    release        |-> IF n % 2 = 1 THEN 8192 ELSE 0 ]

\* m with the bytes bs stored from offset off on (bytes past the end are lost).
Store(m, off, bs) ==
  [i \in 1..Len(m) |->
     IF i > off /\ i <= off + Len(bs) THEN bs[i - off] ELSE m[i]]

Load(m, off, n) == [k \in 1..n |-> m[off + k]]

\* The object representation of a vvm_result: each member at its offset,
\* the bytes between members zero.
Image(r, addr) ==
  LET m0 == Zeros(SizeofResult)
      m1 == Store(m0, OffsetOf("status_code"),
                  LittleEndian(r.status_code, SizeOf("status_code")))
      m2 == Store(m1, OffsetOf("gas_left"),
                  LittleEndian(r.gas_left, SizeOf("gas_left")))
      m3 == Store(m2, OffsetOf("output_data"),
                  LittleEndian(r.output_data, SizeOf("output_data")))
      m4 == Store(m3, OffsetOf("output_size"),
                  LittleEndian(r.output_size, SizeOf("output_size")))
      m5 == Store(m4, OffsetOf("release"),
                  LittleEndian(r.release, SizeOf("release")))
      m6 == Store(m5, OffsetOf("create_address"), addr)
  IN  Store(m6, OffsetOf("padding"), Zeros(SizeOf("padding")))

\* The bytes of one member of the vvm_result in mem.
Member(m, name) == Load(m, OffsetOf(name), SizeOf(name))

\* vvm_get_optional_data(result)->bytes[0..23] = payload s
WriteOptionalData(s) ==
  /\ mem # << >>
  /\ mem' = Store(mem, vvm_get_optional_data, Payload(s))
  /\ written' = Payload(s)
  /\ addrAfter' = << >>
  /\ readback' = << >>
  /\ UNCHANGED treeVars

\* result->create_address = address a
WriteCreateAddress(a) ==
  /\ mem # << >>
  /\ mem' = Store(mem, OffsetOf("create_address"), Address(a))
  /\ addrAfter' = IF written = << >> THEN << >> ELSE Address(a)
  /\ readback' = << >>
  /\ UNCHANGED << written, treeVars >>

\* the 24 bytes of vvm_get_const_optional_data(result)->bytes
ReadOptionalData ==
  /\ mem # << >>
  /\ readback = << >>
  /\ readback' = Load(mem, vvm_get_const_optional_data, SizeofOptionalBytes)
  /\ UNCHANGED << mem, written, addrAfter, treeVars >>

\* --------------------------------------------------- Spec: one call tree
\* struct vvm_context: the function table, non-null, and the Host's own data.
Contexts == { [id |-> i, fn_table |-> "vvm_context_fn_table"] : i \in 1..2 }

NoCtx == [id |-> 0, fn_table |-> NULL]

\* struct vvm_context_fn_table, member by member.
vvm_context_fn_table ==
  << "account_exists", "get_storage", "set_storage", "get_balance",
     "get_code", "selfdestruct", "call", "get_tx_context", "get_block_hash",
     "emit_log" >>

Arg(param, val) == [param |-> param, val |-> val]

\* The parameter list of each callback type, in the order of its typedef.
\* outp is the result_code argument of get_code ("result_code" or NULL).
CallbackArgs_ContextFirst(op, ctx, outp) ==
  CASE op = "account_exists" -> << Arg("context", ctx), Arg("address", "a") >>
    [] op = "get_storage"    -> << Arg("context", ctx), Arg("result", "out"),
                                   Arg("address", "a"), Arg("key", "k") >>
    [] op = "set_storage"    -> << Arg("context", ctx), Arg("address", "a"),
                                   Arg("key", "k"), Arg("value", "v") >>
    [] op = "get_balance"    -> << Arg("context", ctx), Arg("result", "out"),
                                   Arg("address", "a") >>
    [] op = "get_code"       -> << Arg("context", ctx), Arg("result_code", outp),
                                   Arg("address", "a") >>
    [] op = "selfdestruct"   -> << Arg("context", ctx), Arg("address", "a"),
                                   Arg("beneficiary", "b") >>
    [] op = "call"           -> << Arg("context", ctx), Arg("result", "out"),
                                   Arg("msg", "msg") >>
    [] op = "get_tx_context" -> << Arg("context", ctx), Arg("result", "out") >>
    [] op = "get_block_hash" -> << Arg("context", ctx), Arg("result", "out"),
                                   Arg("number", "n") >>
    [] op = "emit_log"       -> << Arg("context", ctx), Arg("address", "a"),
                                   Arg("data", "d"), Arg("data_size", "n"),
                                   Arg("topics", "t"), Arg("topics_count", "n") >>

CallbackArgs(op, ctx, outp) ==
  CASE op = "account_exists" -> << Arg("context", ctx), Arg("address", "a") >>
    [] op = "get_storage"    -> << Arg("result", "out"), Arg("context", ctx),
                                   Arg("address", "a"), Arg("key", "k") >>
    [] op = "set_storage"    -> << Arg("context", ctx), Arg("address", "a"),
                                   Arg("key", "k"), Arg("value", "v") >>
    [] op = "get_balance"    -> << Arg("result", "out"), Arg("context", ctx),
                                   Arg("address", "a") >>
    [] op = "get_code"       -> << Arg("result_code", outp), Arg("context", ctx),
                                   Arg("address", "a") >>
    [] op = "selfdestruct"   -> << Arg("context", ctx), Arg("address", "a"),
                                   Arg("beneficiary", "b") >>
    [] op = "call"           -> << Arg("result", "out"), Arg("context", ctx),
                                   Arg("msg", "msg") >>
    [] op = "get_tx_context" -> << Arg("result", "out"), Arg("context", ctx) >>
    [] op = "get_block_hash" -> << Arg("result", "out"), Arg("context", ctx),
                                   Arg("number", "n") >>
    [] op = "emit_log"       -> << Arg("context", ctx), Arg("address", "a"),
                                   Arg("data", "d"), Arg("data_size", "n"),
                                   Arg("topics", "t"), Arg("topics_count", "n") >>

NoCall == [op |-> "none", args |-> << >>]

Invoke(op, ctx, outp) == [op |-> op, args |-> CallbackArgs(op, ctx, outp)]

\* What a step did: op, and for a call the flags, depth and value of its msg.
Did(op) == [op |-> op, flags |-> 0, depth |-> 0, value |-> 0]

DidCall(flags, depth, value) ==
  [op |-> "call", flags |-> flags, depth |-> depth, value |-> value]

NoResult == [status_code |-> "none"]

Top == stack[Len(stack)]

\* The top execution runs: it has no result of a nested call in its hands.
Running == hostpc = "exec" /\ stack # << >> /\ rpc = "none"

\* The context a VVM passes to a callback: the one execute was given.
CallbackContext_Other(frame) ==
  CHOOSE c \in Contexts : c # frame.context

CallbackContext(frame) == frame.context

\* The context the Host gives the execute it dispatches a nested call to.
NestedContext(ctx) == ctx

\* ---- vvm_result values
OutcomeHasData_AlsoFailure(status) ==
  status \in {"VVM_SUCCESS", "VVM_REVERT", "VVM_FAILURE"}

\* The statuses with which gas_left and the output mean something.
OutcomeHasData(status) == status \in {"VVM_SUCCESS", "VVM_REVERT"}

\* gas_left is 0 and there is no output unless the status is SUCCESS or REVERT.
MakeResult(status, gas, data, size, rel) ==
  [ status_code |-> status,
    gas_left    |-> IF OutcomeHasData(status) THEN gas ELSE 0,
    output_data |-> IF OutcomeHasData(status) THEN data ELSE NULL,
    output_size |-> IF OutcomeHasData(status) THEN size ELSE 0,
    release     |-> rel ]

\* The output buffers a result may name: NULL with size 0, or data.
Outputs == { << NULL, 0 >>, << "output", 0 >>, << "output", 1 >> }

ReleaseFns == { NULL, "release" }

\* The running execution ends and its result goes to its receiver: the
\* execution that made the nested call, or the Host.
Return(r) ==
  /\ stack' = SubSeq(stack, 1, Len(stack) - 1)
  /\ result' = r
  /\ rpc' = "got"
  /\ released' = 0
  /\ deadRead' = FALSE

\* ---- the Host starts the call tree
HostExecute(ctx, flags) ==
  /\ hostpc = "idle"
  /\ hostpc' = "exec"
  /\ hostCtx' = ctx
  /\ stack' = << [depth |-> 0, flags |-> flags, context |-> ctx] >>
  /\ attempt' = Did("execute")
  /\ cb' = NoCall
  /\ UNCHANGED << result, rpc, released, deadRead, dropped, world, codeBufs,
                  dataVars >>

\* ---- the VVM's callbacks that only read
ReadOnlyOps ==
  { "account_exists", "get_storage", "get_balance", "get_tx_context",
    "get_block_hash" }

VVMQuery(op) ==
  /\ Running
  /\ attempt' = Did(op)
  /\ cb' = Invoke(op, CallbackContext(Top), NULL)
  /\ UNCHANGED << hostpc, hostCtx, stack, result, rpc, released, deadRead,
                  dropped, world, codeBufs, dataVars >>

\* ---- the operations static mode restricts
StaticRestricted_Never(frame) == FALSE

\* Whether the execution is in static mode.
StaticRestricted(frame) == IsStatic(frame.flags)

StaticModeError ==
  /\ \E rel \in ReleaseFns :
       Return(MakeResult("VVM_STATIC_MODE_ERROR", 0, NULL, 0, rel))
  /\ cb' = NoCall
  /\ UNCHANGED << hostpc, hostCtx, dropped, world, codeBufs, dataVars >>

VVMSetStorage(value) ==
  /\ Running
  /\ attempt' = Did("set_storage")
  /\ IF StaticRestricted(Top)
       THEN StaticModeError
       ELSE /\ cb' = Invoke("set_storage", CallbackContext(Top), NULL)
            /\ world' = [world EXCEPT !.storage = value]
            /\ UNCHANGED << hostpc, hostCtx, stack, result, rpc, released,
                            deadRead, dropped, codeBufs, dataVars >>

VVMSelfdestruct ==
  /\ Running
  /\ attempt' = Did("selfdestruct")
  /\ IF StaticRestricted(Top)
       THEN StaticModeError
       ELSE /\ cb' = Invoke("selfdestruct", CallbackContext(Top), NULL)
            /\ world' = [world EXCEPT !.destructed = TRUE]
            /\ UNCHANGED << hostpc, hostCtx, stack, result, rpc, released,
                            deadRead, dropped, codeBufs, dataVars >>

VVMEmitLog ==
  /\ Running
  /\ attempt' = Did("emit_log")
  /\ IF StaticRestricted(Top)
       THEN StaticModeError
       ELSE /\ world.logs < MaxLogs
            /\ cb' = Invoke("emit_log", CallbackContext(Top), NULL)
            /\ world' = [world EXCEPT !.logs = @ + 1]
            /\ UNCHANGED << hostpc, hostCtx, stack, result, rpc, released,
                            deadRead, dropped, codeBufs, dataVars >>

\* ---- get_code
\* Who frees the buffer get_code hands out.
CodeOwner_VVM == "VVM"

CodeOwner == "Client"

\* The Host's get_code: with no result_code it only returns the size; with
\* one it also hands out a buffer.
HostGetCode(outp, bufs) ==
  IF outp = NULL THEN bufs ELSE Append(bufs, [freed_by |-> "nobody"])

VVMGetCode(outp) ==
  /\ Running
  /\ Len(codeBufs) < MaxCodeBufs
  /\ attempt' = Did("get_code")
  /\ cb' = Invoke("get_code", CallbackContext(Top), outp)
  /\ codeBufs' = HostGetCode(outp, codeBufs)
  /\ UNCHANGED << hostpc, hostCtx, stack, result, rpc, released, deadRead,
                  dropped, world, dataVars >>

\* The buffer's owner frees it: the Client once execute has returned to it.
FreeCode(i) ==
  /\ \/ CodeOwner = "Client" /\ hostpc = "cleanup"
     \/ CodeOwner = "VVM" /\ Running
  /\ codeBufs[i].freed_by = "nobody"
  /\ codeBufs' = [codeBufs EXCEPT ![i].freed_by = CodeOwner]
  /\ attempt' = Did("free_code")
  /\ cb' = NoCall
  /\ UNCHANGED << hostpc, hostCtx, stack, result, rpc, released, deadRead,
                  dropped, world, dataVars >>

\* ---- call
DepthExceeded_OffByOne(depth) == depth > MaxCallDepth + 1

\* The depth check made on a nested call request.
DepthExceeded(depth) == depth > MaxCallDepth

\* The statuses a call over the depth limit may end with.
DepthStatuses == { "VVM_FAILURE", "VVM_OUT_OF_GAS" }

\* The Host's call: over the depth limit it returns a failure at once;
\* otherwise it transfers the value and dispatches execute for the message.
HostCall(ctx, flags, depth, value) ==
  IF DepthExceeded(depth)
    THEN /\ \E st \in DepthStatuses, rel \in ReleaseFns :
              result' = MakeResult(st, 0, NULL, 0, rel)
         /\ rpc' = "got"
         /\ released' = 0
         /\ deadRead' = FALSE
         /\ UNCHANGED << stack, world >>
    ELSE /\ value <= world.balance
         /\ world' = [world EXCEPT !.balance = @ - value]
         /\ stack' = Append(stack, [depth |-> depth, flags |-> flags,
                                    context |-> NestedContext(ctx)])
         /\ UNCHANGED << result, rpc, released, deadRead >>

VVMCall(flags, inc, value) ==
  /\ Running
  /\ attempt' = DidCall(flags, Top.depth + inc, value)
  /\ IF StaticRestricted(Top) /\ (~IsStatic(flags) \/ value # 0)
       THEN StaticModeError
       ELSE /\ cb' = Invoke("call", CallbackContext(Top), NULL)
            /\ HostCall(CallbackContext(Top), flags, Top.depth + inc, value)
            /\ UNCHANGED << hostpc, hostCtx, dropped, codeBufs, dataVars >>

\* ---- the execution ends
VVMFinish(status, gas, out, rel) ==
  /\ Running
  /\ attempt' = Did("finish")
  /\ cb' = NoCall
  /\ Return(MakeResult(status, gas, out[1], out[2], rel))
  /\ UNCHANGED << hostpc, hostCtx, dropped, world, codeBufs, dataVars >>

\* ---- the receiver of a result: it reads it, releases it, discards it
CanUse(pc) == pc = "got"

UseResult ==
  /\ hostpc = "exec"
  /\ CanUse(rpc)
  /\ rpc' = "used"
  /\ deadRead' = (deadRead \/ released > 0)
  /\ attempt' = Did("use_result")
  /\ cb' = NoCall
  /\ UNCHANGED << hostpc, hostCtx, stack, result, released, dropped, world,
                  codeBufs, dataVars >>

ReleasePattern_Unconditional(r, n) == n + 1

\* if (result.release) result.release(&result);
ReleasePattern(r, n) == IF r.release # NULL THEN n + 1 ELSE n

ReleaseResult ==
  /\ hostpc = "exec"
  /\ rpc = "used"
  /\ released' = ReleasePattern(result, released)
  /\ rpc' = "released"
  /\ attempt' = Did("release_result")
  /\ cb' = NoCall
  /\ UNCHANGED << hostpc, hostCtx, stack, result, deadRead, dropped, world,
                  codeBufs, dataVars >>

DiscardResult ==
  /\ hostpc = "exec"
  /\ rpc = "released"
  /\ dropped' = dropped \cup
       { [release |-> result.release # NULL, released |-> released,
          dead_read |-> deadRead] }
  /\ result' = NoResult
  /\ rpc' = "none"
  /\ released' = 0
  /\ deadRead' = FALSE
  /\ hostpc' = IF stack = << >> THEN "cleanup" ELSE hostpc
  /\ attempt' = Did("discard_result")
  /\ cb' = NoCall
  /\ UNCHANGED << hostCtx, stack, world, codeBufs, dataVars >>

HostDone ==
  /\ hostpc = "cleanup"
  /\ \A i \in DOMAIN codeBufs : codeBufs[i].freed_by # "nobody"
  /\ hostpc' = "done"
  /\ attempt' = Did("done")
  /\ cb' = NoCall
  /\ UNCHANGED << hostCtx, stack, result, rpc, released, deadRead, dropped,
                  world, codeBufs, dataVars >>

\* ------------------------------------------- SpecRev: revision per call
VVM_ABI_VERSION == 0

\* The six enumerators of vvm_revision, with their values.
vvm_revision ==
  [ VVM_FRONTIER |-> 0, VVM_HOMESTEAD |-> 1, VVM_TANGERINE_WHISTLE |-> 2,
    VVM_SPURIOUS_DRAGON |-> 3, VVM_BYZANTIUM |-> 4, VVM_CONSTANTINOPLE |-> 5 ]

Revisions == { vvm_revision[n] : n \in DOMAIN vvm_revision }

\* struct vvm_instance, member by member: it has no revision.
vvm_instance ==
  [ abi_version |-> VVM_ABI_VERSION, destroy |-> "destroy",
    execute |-> "execute", set_option |-> NULL ]

\* Code whose instruction is legal from the revision `since` on.
Codes == { [since |-> r] : r \in Revisions }

\* Zero-depth messages.
Messages == { [gas |-> g, depth |-> 0, flags |-> 0] : g \in 0..MaxGas }

\* The revision whose rule set execute applies.  `earlier` is what the
\* instance served before: the revisions of its earlier execute calls.
AppliedRevision_Cached(earlier, rev) ==
  IF earlier = << >> THEN rev ELSE earlier[1]

AppliedRevision(earlier, rev) == rev

\* A revision's rule set makes legal what an earlier one's did, and more.
Legal(rev, code) == code.since <= rev

\* execute(instance, context, rev, msg, code, code_size): under the rule set
\* applied the code either is illegal, or reads the Host's storage through
\* get_storage and returns it.
Execute(earlier, ctx, rev, msg, code, host) ==
  LET applied == AppliedRevision(earlier, rev)
  IN  IF Legal(applied, code)
        THEN [ applied   |-> applied,
               result    |-> MakeResult("VVM_SUCCESS", msg.gas, "output", 1,
                                        NULL),
               output    |-> << host >>,
               callbacks |-> << Invoke("get_storage", ctx, NULL) >> ]
        ELSE [ applied   |-> applied,
               result    |-> MakeResult("VVM_BAD_INSTRUCTION", msg.gas, NULL,
                                        0, NULL),
               output    |-> << >>,
               callbacks |-> << >> ]

NoCompare == [call |-> "none"]

TheContext == CHOOSE c \in Contexts : c.id = 1

\* Run r serves an execute call; the instance is as it was.
EarlierExecute(r, rev, msg, code, host) ==
  /\ compared = NoCompare
  /\ Len(runs[r].earlier) < MaxEarlierCalls
  /\ Execute(runs[r].earlier, TheContext, rev, msg, code, host).result
       # NoResult
  /\ runs' = [runs EXCEPT ![r].earlier = Append(@, rev)]
  /\ UNCHANGED << compared, hostpc, hostCtx, stack, result, rpc, released,
                  deadRead, dropped, world, attempt, cb, codeBufs, mem,
                  written, addrAfter, readback >>

\* Both runs serve the same execute call: the same revision, message, code and
\* Host state.
ExecuteBoth(rev, msg, code, host) ==
  /\ compared = NoCompare
  /\ compared' =
       [ call |-> [rev |-> rev, msg |-> msg, code |-> code, host |-> host],
         out  |-> [r \in DOMAIN runs |->
                     Execute(runs[r].earlier, TheContext, rev, msg, code,
                             host)],
         instance |-> [r \in DOMAIN runs |-> runs[r].instance] ]
  /\ UNCHANGED << runs, hostpc, hostCtx, stack, result, rpc, released,
                  deadRead, dropped, world, attempt, cb, codeBufs, mem,
                  written, addrAfter, readback >>

\* ---------------------------------------------------------- specifications
InitTree ==
  /\ hostpc = "idle"
  /\ hostCtx = NoCtx
  /\ stack = << >>
  /\ result = NoResult
  /\ rpc = "none"
  /\ released = 0
  /\ deadRead = FALSE
  /\ dropped = {}
  /\ world = [storage |-> 0, logs |-> 0, destructed |-> FALSE,
              balance |-> MaxBalance]
  /\ attempt = Did("none")
  /\ cb = NoCall
  /\ codeBufs = << >>
  /\ runs = [r \in 1..2 |-> [instance |-> vvm_instance, earlier |-> << >>]]
  /\ compared = NoCompare

Init ==
  /\ InitTree
  /\ mem = << >>
  /\ written = << >>
  /\ addrAfter = << >>
  /\ readback = << >>

Next ==
  \/ \E ctx \in Contexts, flags \in vvm_flags : HostExecute(ctx, flags)
  \/ \E op \in ReadOnlyOps : VVMQuery(op)
  \/ \E value \in 0..1 : VVMSetStorage(value)
  \/ VVMSelfdestruct
  \/ VVMEmitLog
  \/ \E outp \in {NULL, "result_code"} : VVMGetCode(outp)
  \/ \E i \in DOMAIN codeBufs : FreeCode(i)
  \/ \E flags \in vvm_flags, inc \in 1..MaxDepthInc, value \in 0..1 :
       VVMCall(flags, inc, value)
  \/ \E status \in StatusCodes \ {"VVM_STATIC_MODE_ERROR"}, gas \in 0..MaxGas,
        out \in Outputs, rel \in ReleaseFns :
       VVMFinish(status, gas, out, rel)
  \/ UseResult
  \/ ReleaseResult
  \/ DiscardResult
  \/ HostDone

Spec == Init /\ [][Next]_vars

InitData ==
  /\ InitTree
  /\ \E n \in 1..MaxImages, a \in 1..MaxAddresses :
       mem = Image(ExampleResult(n), Address(a))
  /\ written = << >>
  /\ addrAfter = << >>
  /\ readback = << >>

NextData ==
  \/ \E s \in 1..MaxPayloads : WriteOptionalData(s)
  \/ \E a \in 1..MaxAddresses : WriteCreateAddress(a)
  \/ ReadOptionalData

SpecData == InitData /\ [][NextData]_vars

NextRev ==
  \/ \E r \in DOMAIN runs, rev \in Revisions, msg \in Messages,
        code \in Codes, host \in 0..1 :
       EarlierExecute(r, rev, msg, code, host)
  \/ \E rev \in Revisions, msg \in Messages, code \in Codes, host \in 0..1 :
       ExecuteBoth(rev, msg, code, host)

SpecRev == Init /\ [][NextRev]_vars

\* ------------------------------------------------------------------ claims
\* C1: every vvm_result a receiver gets from execute or from the call
\* callback whose status_code is neither VVM_SUCCESS nor VVM_REVERT has
\* gas_left 0 and no output: output_data NULL and output_size 0.
C1_FailureHasNoGasNoOutput ==
  result # NoResult =>
    (result.status_code \notin {"VVM_SUCCESS", "VVM_REVERT"} =>
       /\ result.gas_left = 0
       /\ result.output_data = NULL
       /\ result.output_size = 0)

\* C1's case: a nested execution ended out of gas and the execution that
\* called it holds the result.
C1_Witness ==
  /\ result # NoResult
  /\ result.status_code = "VVM_OUT_OF_GAS"
  /\ attempt.op = "finish"
  /\ Len(stack) >= 1

\* C2: a result whose release is set has it invoked exactly once by its
\* receiver, which never reads the result afterwards; a result whose release
\* is NULL never has it invoked; when the call tree is over no result is left.
C2_ReleasedExactlyOnce ==
  /\ result # NoResult =>
       /\ released <= 1
       /\ result.release = NULL => released = 0
       /\ ~deadRead
       /\ rpc = "released" => released = (IF result.release = NULL THEN 0 ELSE 1)
  /\ \A d \in dropped :
       /\ d.released = (IF d.release THEN 1 ELSE 0)
       /\ ~d.dead_read
  /\ hostpc \in {"cleanup", "done"} => result = NoResult /\ dropped # {}

\* C2's case: the call tree is over, and it discarded a result with a release
\* function and one without.
C2_Witness ==
  /\ hostpc = "done"
  /\ \E d \in dropped : d.release /\ d.released = 1
  /\ \E d \in dropped : ~d.release /\ d.released = 0

\* Some execution on the stack has the static flag.
InStaticMode == \E i \in DOMAIN stack : IsStatic(stack[i].flags)

\* C3: in an execution with the static flag, or nested below one, an attempt
\* at set_storage, selfdestruct, emit_log or a nested call without the static
\* flag ends the execution with VVM_STATIC_MODE_ERROR, invokes no callback and
\* leaves the Host's world state as it was.
C3_StaticModeRefusal ==
  [][ ( /\ Running
        /\ InStaticMode
        /\ \/ attempt'.op \in {"set_storage", "selfdestruct", "emit_log"}
           \/ attempt'.op = "call" /\ ~IsStatic(attempt'.flags) )
      => ( /\ result' # NoResult
           /\ result'.status_code = "VVM_STATIC_MODE_ERROR"
           /\ stack' = SubSeq(stack, 1, Len(stack) - 1)
           /\ cb' = NoCall
           /\ world' = world ) ]_vars

\* C3's case: an execution nested below a static one tried set_storage after
\* the world state had changed, and its caller holds the result.
C3_Witness ==
  /\ attempt.op = "set_storage"
  /\ result # NoResult
  /\ result.status_code = "VVM_STATIC_MODE_ERROR"
  /\ Len(stack) = 2
  /\ IsStatic(stack[2].flags)
  /\ world.logs > 0

\* C4: a call request whose message is deeper than the maximum depth returns
\* a result whose status is not VVM_SUCCESS, and nothing happens between the
\* request and the return: no execution is dispatched, so no callback is
\* made, and the Host's state is as it was.
C4_DepthExceededFails ==
  [][ ( /\ Running
        /\ attempt'.op = "call"
        /\ cb'.op = "call"
        /\ attempt'.depth > MaxCallDepth )
      => ( /\ result' # NoResult
           /\ result'.status_code # "VVM_SUCCESS"
           /\ rpc' = "got"
           /\ stack' = stack
           /\ world' = world
           /\ codeBufs' = codeBufs ) ]_vars

\* C4's case: at the end of a chain of nested calls, each deeper than its
\* caller, a call over the depth limit has returned.
C4_Witness ==
  /\ attempt.op = "call"
  /\ cb.op = "call"
  /\ attempt.depth > MaxCallDepth
  /\ rpc = "got"
  /\ Len(stack) >= 2
  /\ \A i \in 1..(Len(stack) - 1) : stack[i + 1].depth > stack[i].depth

\* C5: 24 bytes written through vvm_get_optional_data are the 24 bytes read
\* through vvm_get_const_optional_data, unless create_address was written in
\* between: then the first 20 bytes read are the new create_address and the
\* last 4 are the ones written.
C5_OptionalDataRoundTrip ==
  (readback # << >> /\ written # << >>) =>
    IF addrAfter = << >>
      THEN readback = written
      ELSE /\ SubSeq(readback, 1, 20) = addrAfter
           /\ SubSeq(readback, 21, 24) = SubSeq(written, 21, 24)

\* C5's case: a payload was written, then a create_address that differs from
\* its first 20 bytes, then the optional data was read.
C5_Witness ==
  /\ written # << >>
  /\ addrAfter # << >>
  /\ readback # << >>
  /\ readback # written

\* C6: the members of vvm_result are status_code, gas_left, output_data,
\* output_size, release, create_address, padding in that order; with natural
\* alignment the struct is 64 bytes; create_address (20 bytes) and padding
\* (4 bytes) are contiguous and are its last 24 bytes, offsets 40 to 63.
C6_ResultLayout ==
  /\ [i \in DOMAIN vvm_result |-> vvm_result[i].name] =
       << "status_code", "gas_left", "output_data", "output_size",
          "release", "create_address", "padding" >>
  /\ \A i \in 1..(Len(vvm_result) - 1) :
       FieldOffset(i) + vvm_result[i].size <= FieldOffset(i + 1)
  /\ SizeofResult = 64
  /\ OffsetOf("create_address") = 40
  /\ SizeOf("create_address") = 20
  /\ OffsetOf("padding") = OffsetOf("create_address") + SizeOf("create_address")
  /\ SizeOf("padding") = 4
  /\ OffsetOf("padding") + SizeOf("padding") = SizeofResult
  /\ vvm_result_optional_data = SizeOf("create_address") + SizeOf("padding")
  /\ mem # << >> =>
       /\ Len(mem) = 64
       /\ readback # << >> =>
            readback = Member(mem, "create_address") \o Member(mem, "padding")
       /\ readback # << >> => readback = SubSeq(mem, 41, 64)

\* C6's case: the optional data of a 64-byte result was read after a write.
C6_Witness ==
  /\ Len(mem) = 64
  /\ written # << >>
  /\ readback # << >>

TableOps == { vvm_context_fn_table[i] : i \in DOMAIN vvm_context_fn_table }

ContextFirstOps == { "account_exists", "set_storage", "selfdestruct", "emit_log" }

\* The places of the context among the arguments of a callback invocation.
ContextPlaces(c) == { i \in DOMAIN c.args : c.args[i].param = "context" }

\* C7 as stated: the table has ten operations and every callback invocation
\* has the context as its first argument.
C7_ContextFirstEverywhere ==
  /\ Len(vvm_context_fn_table) = 10
  /\ Cardinality(TableOps) = 10
  /\ cb # NoCall => cb.op \in TableOps /\ ContextPlaces(cb) = {1}

\* C7 amended: the table has ten operations, each takes the context exactly
\* once: account_exists, set_storage, selfdestruct and emit_log as their first
\* argument, the other six as their second, after the output pointer.
C7_ContextFirstOrAfterOutput ==
  /\ Len(vvm_context_fn_table) = 10
  /\ Cardinality(TableOps) = 10
  /\ cb # NoCall =>
       /\ cb.op \in TableOps
       /\ IF cb.op \in ContextFirstOps
            THEN ContextPlaces(cb) = {1}
            ELSE /\ ContextPlaces(cb) = {2}
                 /\ cb.args[1].param \in {"result", "result_code"}

\* C7's case: a nested execution invoked get_storage, whose first argument is
\* the output pointer.
C7_Witness ==
  /\ cb.op = "get_storage"
  /\ cb.args[1].param = "result"
  /\ Len(stack) >= 2

\* C8: every callback invocation of the call tree, by the top-level execution
\* or a nested one, carries the context the Host passed to the top-level
\* execute, and that context's function table is not NULL.
C8_SameContextEverywhere ==
  /\ cb # NoCall =>
       \A i \in ContextPlaces(cb) :
         /\ cb.args[i].val = hostCtx
         /\ cb.args[i].val.fn_table # NULL
  /\ cb # NoCall => ContextPlaces(cb) # {}
  /\ \A i \in DOMAIN stack : stack[i].context = hostCtx

\* C8's case: an execution nested two calls deep invoked a callback.
C8_Witness ==
  /\ cb.op = "get_balance"
  /\ Len(stack) = 3
  /\ hostCtx \in Contexts

IntegrationCodes == { "VVM_REJECTED", "VVM_INTERNAL_ERROR" }

\* The five fault codes the enum lists between VVM_FAILURE and VVM_REVERT.
FiveFaultCodes ==
  { s \in StatusCodes : vvm_status_code[s] >= vvm_status_code.VVM_OUT_OF_GAS
                        /\ vvm_status_code[s] <= vvm_status_code.VVM_STACK_UNDERFLOW }

SevenFaultCodes ==
  { "VVM_FAILURE", "VVM_OUT_OF_GAS", "VVM_BAD_INSTRUCTION",
    "VVM_BAD_JUMP_DESTINATION", "VVM_STACK_OVERFLOW", "VVM_STACK_UNDERFLOW",
    "VVM_STATIC_MODE_ERROR" }

InExactlyOne(s, A, B) == (s \in A) # (s \in B)

\* C9 as stated: the status of every result is in exactly one of the two
\* classes, the execution outcomes being SUCCESS, REVERT and five fault codes.
C9_TaxonomyWithFiveFaults ==
  /\ Cardinality(FiveFaultCodes) = 5
  /\ result # NoResult =>
       InExactlyOne(result.status_code,
                    {"VVM_SUCCESS", "VVM_REVERT"} \cup FiveFaultCodes,
                    IntegrationCodes)

\* C9 amended: the status of every result, and every enumerator of
\* vvm_status_code, is in exactly one of the two classes, the execution
\* outcomes being SUCCESS, REVERT and the seven fault codes.
C9_TaxonomyWithSevenFaults ==
  /\ Cardinality(SevenFaultCodes) = 7
  /\ \A s \in StatusCodes :
       InExactlyOne(s, {"VVM_SUCCESS", "VVM_REVERT"} \cup SevenFaultCodes,
                    IntegrationCodes)
  /\ result # NoResult =>
       /\ result.status_code \in StatusCodes
       /\ InExactlyOne(result.status_code,
                       {"VVM_SUCCESS", "VVM_REVERT"} \cup SevenFaultCodes,
                       IntegrationCodes)

\* C9's case: a result carries one of the two fault codes outside the five.
C9_Witness ==
  /\ result # NoResult
  /\ result.status_code = "VVM_FAILURE"
  /\ attempt.op = "finish"

\* The result_code argument of a get_code invocation.
ResultCodeArg(c) == c.args[1].val

\* C10 as stated: get_code without a result_code hands out no buffer; a buffer
\* handed out is freed by the VVM, exactly once, and never by the Host.
C10_BufferFreedByEngine ==
  /\ \A i \in DOMAIN codeBufs : codeBufs[i].freed_by \in {"nobody", "VVM"}
  /\ hostpc = "done" => \A i \in DOMAIN codeBufs : codeBufs[i].freed_by = "VVM"

\* C10 amended: get_code without a result_code hands out no buffer, with one
\* it hands out a buffer; a buffer handed out is freed by the Client (the
\* Host), exactly once by the end of the call tree, and never by the VVM.
C10_BufferFreedByClient ==
  /\ [] /\ \A i \in DOMAIN codeBufs :
             codeBufs[i].freed_by \in {"nobody", "Client"}
        /\ hostpc = "done" =>
             \A i \in DOMAIN codeBufs : codeBufs[i].freed_by = "Client"
        /\ hostpc = "exec" =>
             \A i \in DOMAIN codeBufs : codeBufs[i].freed_by = "nobody"
  /\ [][ /\ (attempt'.op = "get_code" /\ ResultCodeArg(cb') = NULL)
              => codeBufs' = codeBufs
         /\ (attempt'.op = "get_code" /\ ResultCodeArg(cb') # NULL)
              => Len(codeBufs') = Len(codeBufs) + 1
         /\ \A i \in DOMAIN codeBufs :
              codeBufs[i].freed_by # "nobody" => codeBufs'[i] = codeBufs[i] ]_vars

\* C10's case: the call tree is over and a buffer get_code handed out was
\* freed by the Client.
C10_Witness ==
  /\ hostpc = "done"
  /\ Len(codeBufs) >= 1
  /\ codeBufs[1].freed_by = "Client"

\* The members of vvm_result outside its optional data.
OtherMembers ==
  { "status_code", "gas_left", "output_data", "output_size", "release" }

\* A step that wrote a payload through vvm_get_optional_data.
OptionalDataWritten ==
  /\ written' # << >>
  /\ addrAfter' = << >>
  /\ (mem' # mem \/ written' # written \/ addrAfter' # addrAfter)

\* C12: writing 24 bytes through vvm_get_optional_data changes no byte of the
\* result other than those of create_address and padding: status_code,
\* gas_left, output_data, output_size and release are as before; and the 24
\* bytes vvm_get_const_optional_data designates are the ones written.
C12_OptionalDataWriteFrame ==
  [][ OptionalDataWritten =>
        /\ Len(mem') = Len(mem)
        /\ \A name \in OtherMembers : Member(mem', name) = Member(mem, name)
        /\ \A i \in DOMAIN mem :
             mem'[i] # mem[i] =>
               /\ i > OffsetOf("create_address")
               /\ i <= OffsetOf("padding") + SizeOf("padding")
        /\ Member(mem', "create_address") = SubSeq(written', 1, 20)
        /\ Member(mem', "padding") = SubSeq(written', 21, 24)
        /\ vvm_get_optional_data = vvm_get_const_optional_data
        /\ Load(mem', vvm_get_const_optional_data, SizeofOptionalBytes)
             = written' ]_vars

\* C12's case: a payload was written over a result whose release and
\* output_data are set, and changed both its create_address and its padding.
C12_Witness ==
  /\ written # << >>
  /\ addrAfter = << >>
  /\ Member(mem, "create_address") = SubSeq(written, 1, 20)
  /\ Member(mem, "padding") = SubSeq(written, 21, 24)
  /\ Member(mem, "padding") # Zeros(SizeOf("padding"))
  /\ Member(mem, "release") # Zeros(SizeOf("release"))
  /\ Member(mem, "output_data") # Zeros(SizeOf("output_data"))

\* What a fresh instance, with no earlier call, gives for a call.
FreshOutcome(call) ==
  IF call.code.since <= call.rev
    THEN [ status |-> "VVM_SUCCESS", callbacks |-> << "get_storage" >> ]
    ELSE [ status |-> "VVM_BAD_INSTRUCTION", callbacks |-> << >> ]

CallbackOps(cs) == [i \in DOMAIN cs |-> cs[i].op]

====
